---- MODULE Spec2Model ----
(***************************************************************************)
(* Interactive mask editor of MetalHalftoneCompositor.tsx: the mask        *)
(* collection, the selection, the drag state and the zoom factor, driven   *)
(* by pointer, keyboard, button and image-load events.                     *)
(*                                                                         *)
(* Every event handler is one atomic action: the handler, the React        *)
(* re-render it causes and the ref-mirror effects (lines 326-335) that     *)
(* copy the committed state into masksRef / selectedMaskRef / dragStateRef *)
(* run to completion before the next event is delivered.  Under that       *)
(* reading a ref always equals the state it mirrors, so one variable       *)
(* stands for both.                                                        *)
(*                                                                         *)
(* JavaScript numbers are modelled as exact rationals <<num, den>> with    *)
(* den > 0, in lowest terms; <<0, 0>> is NaN (also the value of a missing  *)
(* numeric field).  Floating-point rounding is modelled for the zoom       *)
(* factor only, as a binary64 number.                                      *)
(*                                                                         *)
(* Eight specifications share the variables.  Spec is the mask editor.     *)
(* ZoomSpec is the zoom commands on the binary64 zoom factor.              *)
(* PipelineSpec is the recompute and render pipeline: the two debounce     *)
(* timers, the render request, its frame callback, export and teardown,    *)
(* with timer and frame callbacks interleaved freely with the handlers.    *)
(* PixelSpec applies the tone stage, the halftone stage, the preview       *)
(* composite and the export composite at one pixel position.               *)
(* HitSpec applies isPointInMask to one mask and one point.  MergeSpec is   *)
(* the pipeline with the shape buttons: image loads, adds, timers, frame   *)
(* callback and export.  LiveSpec and FrameLiveSpec are the pipeline under *)
(* weak fairness of the timers and of the frame callback, the second with  *)
(* masks and a frame callback that can throw in the stencil code.          *)
(***************************************************************************)
EXTENDS Integers, Sequences, FiniteSets, TLC

\* ------------------------------------------------------------------------
\* Bounds of the model
\* ------------------------------------------------------------------------
MaxMasks == 2
MaxGeomSteps == 1
MaxClock == 1
MaxZoomTerm == 5
MaxTrail == 3
MaxImages == 2
MaxToneParams == 1
MaxHalftoneParams == 1

\* ------------------------------------------------------------------------
\* Exact rational arithmetic standing for JavaScript number arithmetic
\* ------------------------------------------------------------------------
RECURSIVE GCD(_, _)
GCD(a, b) == IF b = 0 THEN a ELSE GCD(b, a % b)

IAbs(n) == IF n < 0 THEN -n ELSE n

NaN == <<0, 0>>
IsNaN(a) == a[2] = 0

Frac(n, d) ==
  IF d = 0 THEN NaN
  ELSE LET s == IF d < 0 THEN -1 ELSE 1
           g == GCD(IAbs(n), IAbs(d))
       IN <<(s * n) \div g, (s * d) \div g>>

R(n) == <<n, 1>>

RAdd(a, b) == IF IsNaN(a) \/ IsNaN(b) THEN NaN
              ELSE Frac(a[1] * b[2] + b[1] * a[2], a[2] * b[2])
RSub(a, b) == IF IsNaN(a) \/ IsNaN(b) THEN NaN
              ELSE Frac(a[1] * b[2] - b[1] * a[2], a[2] * b[2])
RMul(a, b) == IF IsNaN(a) \/ IsNaN(b) THEN NaN
              ELSE Frac(a[1] * b[1], a[2] * b[2])
RDiv(a, b) == IF IsNaN(a) \/ IsNaN(b) THEN NaN
              ELSE Frac(a[1] * b[2], a[2] * b[1])
RAbs(a) == <<IAbs(a[1]), a[2]>>
RHalf(a) == RDiv(a, R(2))

\* comparisons: every comparison with NaN is false, as in JavaScript
RLt(a, b) == ~IsNaN(a) /\ ~IsNaN(b) /\ a[1] * b[2] < b[1] * a[2]
RLe(a, b) == ~IsNaN(a) /\ ~IsNaN(b) /\ a[1] * b[2] <= b[1] * a[2]
RGe(a, b) == RLe(b, a)
REq(a, b) == ~IsNaN(a) /\ ~IsNaN(b) /\ a = b

\* Math.max / Math.min: NaN if either argument is NaN
RMax(a, b) == IF IsNaN(a) \/ IsNaN(b) THEN NaN ELSE IF RLt(a, b) THEN b ELSE a
RMin(a, b) == IF IsNaN(a) \/ IsNaN(b) THEN NaN ELSE IF RLt(b, a) THEN b ELSE a

\* ------------------------------------------------------------------------
\* Program constants
\* ------------------------------------------------------------------------
MinMaskSize == 20
HandleTolerance == 10
MaskSizeFactor == Frac(35, 100)
ZoomStep == Frac(5, 4)
ZoomMax == R(4)
ZoomMin == Frac(1, 4)
InitialCanvasSide == 800

\* selectedMask === null / dragState === null
Null == -1
NoDrag == [type |-> "null", index |-> Null,
           offsetX |-> NaN, offsetY |-> NaN, anchorX |-> NaN, anchorY |-> NaN]

\* ------------------------------------------------------------------------
\* Inputs of the environment.  A behaviour draws its inputs from one of
\* four scopes, fixed when it starts, so that the reachable states are the
\* union and not the product of the four input spaces:
\*   "select"   up to three rectangles, Backspace on every kind of INPUT
\*              and on the page, two pointer places, a running clock
\*   "resize"   one circle or triangle, every pointer place, both ways
\*              of ending a drag
\*   "stack"    stacked rectangles, three pointer places, Delete on the page
\*   "zoom"     the zoom keys and buttons, files that are no image, one
\*              rectangle, one pointer place
\* ------------------------------------------------------------------------
Scopes == {"select", "resize", "stack", "zoom"}

\* decoded image sizes <<width, height>> offered to handleImageUpload
ImageSizes(sc) == IF sc = "select" THEN {<<60, 40>>} ELSE {<<200, 100>>}

\* the layout width the page gives the canvas for an image of width w
ClientWidths(w) == {IF w > 100 THEN 100 ELSE 2 * w}

Shapes == {"rectangle", "circle", "triangle"}
ShapesOf(sc) == IF sc = "resize" THEN {"circle", "triangle"} ELSE {"rectangle"}

\* pointer locations, as the point of the image under the pointer, in
\* twentieths of the image's width and height
Points == {<<1, 1>>, <<7, 7>>, <<10, 10>>, <<14, 14>>, <<14, 6>>, <<6, 14>>}
PointsOf(sc) == IF sc = "resize" THEN Points
                ELSE IF sc = "select" THEN {<<1, 1>>, <<10, 10>>}
                ELSE IF sc = "zoom" THEN {<<7, 7>>}
                ELSE {<<1, 1>>, <<7, 7>>, <<10, 10>>}

\* targets of a keydown event: tagName and, for INPUT, its type attribute
KeyTargets == {[tagName |-> "INPUT", type |-> "text"],
               [tagName |-> "INPUT", type |-> "range"],
               [tagName |-> "TEXTAREA", type |-> ""],
               [tagName |-> "BODY", type |-> ""]}
KeyTargetsOf(sc) == IF sc = "stack" THEN {[tagName |-> "BODY", type |-> ""]}
                    ELSE IF sc = "select" THEN {t \in KeyTargets : t.tagName # "TEXTAREA"}
                    ELSE {t \in KeyTargets : t.tagName # "INPUT"}
Keys == {"Backspace", "Delete", "+", "=", "-", "0"}
KeysOf(sc) == IF sc = "select" THEN {"Backspace"}
              ELSE IF sc = "stack" THEN {"Delete"}
              ELSE IF sc = "zoom" THEN {"+", "=", "-", "0"}
              ELSE {}

\* files offered to handleImageUpload: an image or not
FileKinds(sc) == IF sc = "zoom" THEN BOOLEAN ELSE {TRUE}

\* the ways a drag ends: release on the canvas, or the pointer leaving it
ReleaseKinds(sc) == IF sc = "resize" THEN {"mouseUp", "mouseLeave"} ELSE {"mouseUp"}

\* readings of Date.now() offered to addMask when the last reading was c
ClockReadings(sc, c) == IF sc = "select" THEN c..MaxClock ELSE {c}

\* the largest collection the shape buttons are pressed on
MaskCap(sc) == IF sc = "select" THEN MaxMasks + 1 ELSE IF sc = "stack" THEN MaxMasks ELSE 1

\* ------------------------------------------------------------------------
\* State
\* ------------------------------------------------------------------------
VARIABLES
  scope,         \* the scope the behaviour draws its inputs from
  mounted,       \* the component is mounted (false once a render has thrown)
  imageLoaded,   \* useState imageLoaded
  canvasSize,    \* useState canvasSize / canvasSizeRef
  clientWidth,   \* mainCanvasRef.current.clientWidth (layout width, untransformed)
  masks,         \* useState masks / masksRef: sequence of array slots
  selectedMask,  \* useState selectedMask / selectedMaskRef: index or Null
  dragState,     \* useState dragState / dragStateRef
  zoom,          \* useState zoom
  clock,         \* the last reading of Date.now()
  nGeom,         \* number of pointer moves that rewrote the mask array
  ev,            \* history: the last event delivered and the selection it found
  zoomD,         \* useState zoom as the binary64 number the zoom commands compute
  zh,            \* history of the zoom commands
  rawImageCanvas,      \* useState rawImageCanvas: Null or the decoded image
  imageAdj,            \* useState imageAdj: the tone parameters
  halftoneOpts,        \* useState halftoneOpts: the halftone parameters
  maskContent,         \* useState maskContent / maskContentRef
  imageCanvas,         \* useState imageCanvas / imageCanvasRef: the adjusted buffer
  halftoneCanvas,      \* useState halftoneCanvas / halftoneCanvasRef: the halftone buffer
  adjustTimers,        \* pending setTimeout callbacks of the tone stage, oldest first
  adjustTimeoutRef,    \* adjustTimeoutRef.current: "none", "pending" or "fired"
  halftoneTimers,      \* pending setTimeout callbacks of the halftone stage
  halftoneTimeoutRef,  \* halftoneTimeoutRef.current: "none", "pending" or "fired"
  isProcessingRef,     \* isProcessingRef.current
  frames,              \* outstanding requestAnimationFrame callbacks, oldest first
  displayed,           \* what the last frame callback drew on the main canvas
  pev,                 \* history of the last pipeline event: export and output, timer cancelled
  pin,                 \* one pixel position: the raw sample and everything applied to it
  pout,                \* the last per-pixel function applied at that position and its result
  hin,                 \* one hit test: a mask, a display scale and a point
  hout                 \* the answer isPointInMask gave for it

\* the variables of the mask editor, of the zoom commands
editVars == <<scope, mounted, imageLoaded, canvasSize, clientWidth, masks, selectedMask,
              dragState, zoom, clock, nGeom, ev>>
zoomVars == <<zoomD, zh>>
pipeVars == <<rawImageCanvas, imageAdj, halftoneOpts, maskContent, imageCanvas, halftoneCanvas,
              adjustTimers, adjustTimeoutRef, halftoneTimers, halftoneTimeoutRef,
              isProcessingRef, frames, displayed, pev>>

pixelVars == <<pin, pout>>
hitVars == <<hin, hout>>

\* the variables the mask editor's actions, the zoom commands, the pipeline
\* events and the per-pixel functions leave alone
otherVars == <<zoomVars, pipeVars, pixelVars, hitVars>>
beyondZoom == <<pipeVars, pixelVars, hitVars>>
beyondPipe == <<zoomVars, pixelVars, hitVars>>
beyondPixel == <<editVars, zoomVars, pipeVars, hitVars>>
beyondHit == <<editVars, zoomVars, pipeVars, pixelVars>>

vars == <<editVars, zoomVars, pipeVars, pixelVars, hitVars>>

\* ------------------------------------------------------------------------
\* Array slots of the mask collection.  A slot holds an object or is an
\* empty slot of a sparse array; spreading a sparse array turns its empty
\* slots into the value undefined.  A field an object lacks is "undefined"
\* (shape), NaN (numbers) or Null (id).
\* ------------------------------------------------------------------------
EmptyObject == [slot |-> "obj", shape |-> "undefined", x |-> NaN, y |-> NaN,
                width |-> NaN, height |-> NaN, id |-> Null]
Hole == [EmptyObject EXCEPT !.slot = "hole"]
Undefined == [EmptyObject EXCEPT !.slot = "undefined"]

\* currentMasks[i] is truthy
IsObject(ms, i) == i >= 0 /\ i < Len(ms) /\ ms[i + 1].slot = "obj"

\* [...prev]
Spread(prev) == [i \in 1..Len(prev) |-> IF prev[i].slot = "hole" THEN Undefined ELSE prev[i]]

\* {...prev[index]}
SpreadObject(prev, index) == IF IsObject(prev, index) THEN prev[index + 1] ELSE EmptyObject

\* u[index] = v
ArraySet(u, index, v) ==
  IF index < Len(u) THEN [u EXCEPT ![index + 1] = v]
  ELSE [i \in 1..(index + 1) |-> IF i <= Len(u) THEN u[i] ELSE IF i = index + 1 THEN v ELSE Hole]

\* prev.filter((_, i) => i !== index): filter visits no empty slot
RECURSIVE FilterFrom(_, _, _)
FilterFrom(prev, index, i) ==
  IF i > Len(prev) THEN <<>>
  ELSE IF prev[i].slot = "hole" \/ i - 1 = index THEN FilterFrom(prev, index, i + 1)
  ELSE <<prev[i]>> \o FilterFrom(prev, index, i + 1)

FilterNotIndex(prev, index) == FilterFrom(prev, index, 1)

\* masks.map((mask, i) => ... mask.id ...) in the component's render throws
\* a TypeError on a slot holding undefined (map visits no empty slot)
RenderThrows(ms) == \E i \in 1..Len(ms) : ms[i].slot = "undefined"

\* ------------------------------------------------------------------------
\* Geometry
\* ------------------------------------------------------------------------
getCS == Frac(clientWidth, canvasSize.width)

\* canvas.getBoundingClientRect(): the box after transform: scale(zoom) about
\* the centre of the layout box, whose origin is taken as the page origin
ClientHeight == RMul(R(clientWidth), Frac(canvasSize.height, canvasSize.width))
BoundingClientRect ==
  [left |-> RSub(RHalf(R(clientWidth)), RMul(zoom, RHalf(R(clientWidth)))),
   top  |-> RSub(RHalf(ClientHeight), RMul(zoom, RHalf(ClientHeight)))]

\* the image point under the pointer for a pointer location pt
ImagePoint(pt) == [x |-> Frac(pt[1] * canvasSize.width, 20),
                   y |-> Frac(pt[2] * canvasSize.height, 20)]

\* the mouse event the browser delivers with the pointer over image point p:
\* p is drawn at layout offset p * cs, magnified by zoom inside the box
MouseEvent(pt) ==
  LET p == ImagePoint(pt) IN
  [clientX |-> RAdd(BoundingClientRect.left, RMul(zoom, RMul(p.x, getCS))),
   clientY |-> RAdd(BoundingClientRect.top, RMul(zoom, RMul(p.y, getCS)))]

getCanvasCoords(e) == [x |-> RSub(e.clientX, BoundingClientRect.left),
                       y |-> RSub(e.clientY, BoundingClientRect.top)]

getHandlePositions(mask, cs) ==
  LET cx == RMul(mask.x, cs)
      cy == RMul(mask.y, cs)
      w == RMul(mask.width, cs)
      h == RMul(mask.height, cs)
  IN << [x |-> RSub(cx, RHalf(w)), y |-> RSub(cy, RHalf(h)), pos |-> "tl"],
        [x |-> RAdd(cx, RHalf(w)), y |-> RSub(cy, RHalf(h)), pos |-> "tr"],
        [x |-> RSub(cx, RHalf(w)), y |-> RAdd(cy, RHalf(h)), pos |-> "bl"],
        [x |-> RAdd(cx, RHalf(w)), y |-> RAdd(cy, RHalf(h)), pos |-> "br"] >>

\* isPointInMask reading mask.x, mask.y as the top left corner of the box
isPointInMask_TopLeft(px, py, mask, cs) ==
  LET cx == RMul(mask.x, cs)
      cy == RMul(mask.y, cs)
      w == RMul(mask.width, cs)
      h == RMul(mask.height, cs)
  IN CASE mask.shape = "rectangle" ->
            /\ RGe(px, cx) /\ RLe(px, RAdd(cx, w))
            /\ RGe(py, cy) /\ RLe(py, RAdd(cy, h))
       [] mask.shape = "circle" ->
            LET rx == RHalf(w)
                ry == RHalf(h)
                dx == RSub(px, RAdd(cx, rx))
                dy == RSub(py, RAdd(cy, ry))
            IN RLe(RAdd(RDiv(RMul(dx, dx), RMul(rx, rx)),
                        RDiv(RMul(dy, dy), RMul(ry, ry))), R(1))
       [] mask.shape = "triangle" ->
            /\ RGe(px, cx) /\ RLe(px, RAdd(cx, w))
            /\ RGe(py, cy) /\ RLe(py, RAdd(cy, h))
       [] OTHER -> FALSE

isPointInMask(px, py, mask, cs) ==
  LET cx == RMul(mask.x, cs)
      cy == RMul(mask.y, cs)
      w == RMul(mask.width, cs)
      h == RMul(mask.height, cs)
  IN CASE mask.shape = "rectangle" ->
            /\ RGe(px, RSub(cx, RHalf(w))) /\ RLe(px, RAdd(cx, RHalf(w)))
            /\ RGe(py, RSub(cy, RHalf(h))) /\ RLe(py, RAdd(cy, RHalf(h)))
       [] mask.shape = "circle" ->
            LET rx == RHalf(w)
                ry == RHalf(h)
                dx == RSub(px, cx)
                dy == RSub(py, cy)
            IN RLe(RAdd(RDiv(RMul(dx, dx), RMul(rx, rx)),
                        RDiv(RMul(dy, dy), RMul(ry, ry))), R(1))
       [] mask.shape = "triangle" ->
            LET x1 == cx
                y1 == RSub(cy, RHalf(h))
                x2 == RAdd(cx, RHalf(w))
                y2 == RAdd(cy, RHalf(h))
                x3 == RSub(cx, RHalf(w))
                y3 == RAdd(cy, RHalf(h))
                d == RAdd(RMul(RSub(y2, y3), RSub(x1, x3)), RMul(RSub(x3, x2), RSub(y1, y3)))
                a == RDiv(RAdd(RMul(RSub(y2, y3), RSub(px, x3)),
                               RMul(RSub(x3, x2), RSub(py, y3))), d)
                b == RDiv(RAdd(RMul(RSub(y3, y1), RSub(px, x3)),
                               RMul(RSub(x1, x3), RSub(py, y3))), d)
            IN RGe(a, R(0)) /\ RGe(b, R(0)) /\ RGe(RSub(RSub(R(1), a), b), R(0))
       [] OTHER -> FALSE

\* ------------------------------------------------------------------------
\* handleMouseDown: what a press at surface position (x, y) decides
\* ------------------------------------------------------------------------
HandleHit(x, y, h) ==
  /\ RLt(RAbs(RSub(x, h.x)), R(HandleTolerance))
  /\ RLt(RAbs(RSub(y, h.y)), R(HandleTolerance))

\* the first handle of the list that the press hits, 0 if none
FirstHandleHit(x, y, handles) ==
  IF \E k \in 1..Len(handles) : HandleHit(x, y, handles[k])
  THEN CHOOSE k \in 1..Len(handles) :
         /\ HandleHit(x, y, handles[k])
         /\ \A j \in 1..(k - 1) : ~HandleHit(x, y, handles[j])
  ELSE 0

\* the corner diagonally opposite the handle pos, in image space
ResizeAnchor(mask, pos) ==
  LET hw == RHalf(mask.width)
      hh == RHalf(mask.height)
  IN CASE pos = "tl" -> [x |-> RAdd(mask.x, hw), y |-> RAdd(mask.y, hh)]
       [] pos = "tr" -> [x |-> RSub(mask.x, hw), y |-> RAdd(mask.y, hh)]
       [] pos = "bl" -> [x |-> RAdd(mask.x, hw), y |-> RSub(mask.y, hh)]
       [] OTHER      -> [x |-> RSub(mask.x, hw), y |-> RSub(mask.y, hh)]

\* the loop for (i = length - 1; i >= 0; i--): the index of the first slot
\* whose mask contains the press, Null if the loop ends, Thrown if it reads
\* a property of an empty slot (TypeError) before that
Thrown == -2
RECURSIVE TopHit(_, _, _, _, _)
TopHit(ms, x, y, cs, i) ==
  IF i < 0 THEN Null
  ELSE IF ms[i + 1].slot # "obj" THEN Thrown
  ELSE IF isPointInMask(x, y, ms[i + 1], cs) THEN i
  ELSE TopHit(ms, x, y, cs, i - 1)

\* handleMouseDown with its two tests exchanged: the loop over the masks
\* runs before the handles of the selected mask are tried
MouseDownResult_MasksFirst(ms, sel, ds, x, y, cs) ==
  LET onSel == sel # Null /\ IsObject(ms, sel)
      handles == IF onSel THEN getHandlePositions(ms[sel + 1], cs) ELSE <<>>
      k == FirstHandleHit(x, y, handles)
      t == TopHit(ms, x, y, cs, Len(ms) - 1)
  IN IF t = Thrown THEN [selectedMask |-> sel, dragState |-> ds]
     ELSE IF t # Null
     THEN [selectedMask |-> t,
           dragState |-> [NoDrag EXCEPT !.type = "move", !.index = t,
                            !.offsetX = RSub(RDiv(x, cs), ms[t + 1].x),
                            !.offsetY = RSub(RDiv(y, cs), ms[t + 1].y)]]
     ELSE IF k # 0
     THEN LET a == ResizeAnchor(ms[sel + 1], handles[k].pos) IN
          [selectedMask |-> sel,
           dragState |-> [NoDrag EXCEPT !.type = "resize", !.index = sel,
                                        !.anchorX = a.x, !.anchorY = a.y]]
     ELSE [selectedMask |-> Null, dragState |-> ds]

\* the selection and drag state handleMouseDown leaves behind
MouseDownResult(ms, sel, ds, x, y, cs) ==
  LET onSel == sel # Null /\ IsObject(ms, sel)
      handles == IF onSel THEN getHandlePositions(ms[sel + 1], cs) ELSE <<>>
      k == FirstHandleHit(x, y, handles)
      t == TopHit(ms, x, y, cs, Len(ms) - 1)
  IN IF k # 0
     THEN LET a == ResizeAnchor(ms[sel + 1], handles[k].pos) IN
          [selectedMask |-> sel,
           dragState |-> [NoDrag EXCEPT !.type = "resize", !.index = sel,
                                        !.anchorX = a.x, !.anchorY = a.y]]
     ELSE IF t = Thrown THEN [selectedMask |-> sel, dragState |-> ds]
     ELSE IF t # Null
     THEN [selectedMask |-> t,
           dragState |-> [NoDrag EXCEPT !.type = "move", !.index = t,
                            !.offsetX = RSub(RDiv(x, cs), ms[t + 1].x),
                            !.offsetY = RSub(RDiv(y, cs), ms[t + 1].y)]]
     ELSE [selectedMask |-> Null, dragState |-> ds]

\* ------------------------------------------------------------------------
\* handleMouseMove: the updater passed to setMasks
\* ------------------------------------------------------------------------
MovedMask(old, ds, mx, my) ==
  [old EXCEPT !.x = RSub(mx, ds.offsetX), !.y = RSub(my, ds.offsetY)]

ResizedMask(old, ds, mx, my) ==
  [old EXCEPT !.x = RHalf(RAdd(ds.anchorX, mx)),
              !.y = RHalf(RAdd(ds.anchorY, my)),
              !.width = RMax(R(MinMaskSize), RAbs(RSub(mx, ds.anchorX))),
              !.height = RMax(R(MinMaskSize), RAbs(RSub(my, ds.anchorY)))]

MouseMoveUpdater(prev, ds, mx, my) ==
  LET u == Spread(prev)
      old == SpreadObject(prev, ds.index)
  IN IF ds.type = "move" THEN ArraySet(u, ds.index, MovedMask(old, ds, mx, my))
     ELSE IF ds.type = "resize" THEN ArraySet(u, ds.index, ResizedMask(old, ds, mx, my))
     ELSE u

\* ------------------------------------------------------------------------
\* addMask / deleteMask / zoom
\* ------------------------------------------------------------------------
NewMask(shape, cs, now) ==
  [slot |-> "obj", shape |-> shape,
   x |-> RHalf(R(cs.width)), y |-> RHalf(R(cs.height)),
   width |-> RMul(R(cs.width), MaskSizeFactor),
   height |-> RMul(R(cs.height), MaskSizeFactor),
   id |-> now]

\* addMask putting the new mask first
AddMaskUpdater_Prepend(prev, shape, cs, now) == <<NewMask(shape, cs, now)>> \o Spread(prev)

AddMaskUpdater(prev, shape, cs, now) == Spread(prev) \o <<NewMask(shape, cs, now)>>

\* deleteMask without the shift of a selection above the deleted index
DeleteMaskSelection_NoShift(sel, index) == IF sel = index THEN Null ELSE sel

\* the selection deleteMask(index) leaves behind
DeleteMaskSelection(sel, index) ==
  IF sel = index THEN Null
  ELSE IF sel # Null /\ sel > index THEN sel - 1
  ELSE sel

zoomIn(z) == RMin(RMul(z, ZoomStep), ZoomMax)
zoomOut(z) == RMax(RDiv(z, ZoomStep), ZoomMin)
zoomReset == R(1)

\* the tagName test of both keydown listeners
IgnoresKeys(target) == target.tagName = "INPUT" \/ target.tagName = "TEXTAREA"

\* the zoom the handleKey listener leaves behind
KeyZoom(z, key, target) ==
  IF IgnoresKeys(target) THEN z
  ELSE IF key = "+" \/ key = "=" THEN zoomIn(z)
  ELSE IF key = "-" THEN zoomOut(z)
  ELSE IF key = "0" THEN zoomReset
  ELSE z

\* the handleKeyDown listener acts on the mask collection
KeyDeletes(sel, key, target) ==
  /\ (key = "Backspace" \/ key = "Delete")
  /\ sel # Null
  /\ ~IgnoresKeys(target)

\* zoom factors kept in the model
ZoomInModel(z) == z[1] <= MaxZoomTerm /\ z[2] <= MaxZoomTerm

\* ------------------------------------------------------------------------
\* The zoom factor as an IEEE 754 binary64 number.  A positive normal
\* number is [e, hi, lo]: its value is M * 2^(e - 52) with the 53-bit
\* significand M = hi * 2^27 + lo, 2^52 <= M < 2^53.  z * 1.25 and z / 1.25
\* are the correctly rounded (to nearest, ties to even) product and
\* quotient, as the JavaScript operators * and / compute them.
\* ------------------------------------------------------------------------
LimbBase == 2^27
HiMin == 2^25
HiMax == 2^26

Double(e, hi, lo) == [e |-> e, hi |-> hi, lo |-> lo]

\* the significand hi * 2^27 + lo plus one (inc = 1) or as it is (inc = 0),
\* renormalised when it reaches 2^53
Normal(e, hi, lo, inc) ==
  LET l == lo + inc
      h == IF l = LimbBase THEN hi + 1 ELSE hi
      l2 == IF l = LimbBase THEN 0 ELSE l
  IN IF h = HiMax THEN Double(e + 1, HiMin, 0) ELSE Double(e, h, l2)

\* z * 1.25: the product 5 * M, shifted right by 2 or 3 bits and rounded
TimesStep(z) ==
  LET lo5 == 5 * z.lo
      l == lo5 % LimbBase
      h == 5 * z.hi + (lo5 \div LimbBase)
      s == IF h >= 4 * HiMax THEN 3 ELSE 2
      dropped == l % (2^s)
      l2 == (l \div (2^s)) + (h % (2^s)) * (LimbBase \div (2^s))
      h2 == h \div (2^s)
      half == 2^(s - 1)
      up == dropped > half \/ (dropped = half /\ l2 % 2 = 1)
  IN Normal(z.e + (s - 2), h2, l2, IF up THEN 1 ELSE 0)

\* z / 1.25: the quotient (M * 2^t) / 5, t = 2 or 3, rounded (no ties: 5 is odd)
OverStep(z) ==
  LET t == IF z.hi >= 5 * (HiMin \div 4) THEN 2 ELSE 3
      hN == z.hi * (2^t) + (z.lo \div (LimbBase \div (2^t)))
      lN == (z.lo % (LimbBase \div (2^t))) * (2^t)
      qh == hN \div 5
      x == (hN % 5) * LimbBase + lN
      ql == x \div 5
      up == (x % 5) >= 3
  IN Normal(z.e - (t - 2), qh, ql, IF up THEN 1 ELSE 0)

\* a < b, a <= b on positive binary64 numbers
DLt(a, b) ==
  \/ a.e < b.e
  \/ a.e = b.e /\ a.hi < b.hi
  \/ a.e = b.e /\ a.hi = b.hi /\ a.lo < b.lo
DLe(a, b) == a = b \/ DLt(a, b)

\* the numbers 1, 4 and 0.25
DOne == Double(0, HiMin, 0)
DZoomMax == Double(2, HiMin, 0)
DZoomMin == Double(0 - 2, HiMin, 0)

\* Math.min(z * 1.25, 4), Math.max(z / 1.25, 0.25), 1; zoomOutD_Min is zoomOut with Math.min
\* in the place of Math.max
zoomInD(z) == IF DLt(DZoomMax, TimesStep(z)) THEN DZoomMax ELSE TimesStep(z)
zoomOutD_Min(z) == IF DLt(OverStep(z), DZoomMin) THEN OverStep(z) ELSE DZoomMin
zoomOutD(z) == IF DLt(OverStep(z), DZoomMin) THEN DZoomMin ELSE OverStep(z)
zoomResetD == DOne

\* the zoom the handleKey listener leaves behind
KeyZoomD(z, key, target) ==
  IF IgnoresKeys(target) THEN z
  ELSE IF key = "+" \/ key = "=" THEN zoomInD(z)
  ELSE IF key = "-" THEN zoomOutD(z)
  ELSE IF key = "0" THEN zoomResetD
  ELSE z

\* History of the zoom commands: the last event (op, key or button, target),
\* the zoom it found (prev), what it did (did: "in", "out", "reset", "none",
\* or "inClamped" / "outClamped" when Math.min / Math.max chose the limit),
\* the commands and zoom values since zoom last was set to 1 (trail, kept
\* for MaxTrail commands, long beyond that) and whether one of them was
\* clamped
NoZoomHistory == [op |-> "init", arg |-> "", tag |-> "", type |-> "",
                  prev |-> DOne, did |-> "none",
                  trail |-> <<>>, long |-> FALSE, clamped |-> FALSE]

\* what a command that leads from zoom z does
ZoomDid(z, cmd) ==
  CASE cmd = "in"  -> IF DLt(DZoomMax, TimesStep(z)) THEN "inClamped" ELSE "in"
    [] cmd = "out" -> IF DLt(OverStep(z), DZoomMin) THEN "outClamped" ELSE "out"
    [] OTHER -> cmd

\* the command a key stands for on a target
KeyCommand(key, target) ==
  IF IgnoresKeys(target) THEN "none"
  ELSE IF key = "+" \/ key = "=" THEN "in"
  ELSE IF key = "-" THEN "out"
  ELSE IF key = "0" THEN "reset"
  ELSE "none"

ZoomRecord(op, arg, target, cmd, z) ==
  LET did == ZoomDid(zoomD, cmd)
      fresh == did = "reset"
      counts == did \in {"in", "out", "inClamped", "outClamped"}
      room == Len(zh.trail) < MaxTrail /\ ~zh.long
  IN zh' = [op |-> op, arg |-> arg, tag |-> target.tagName, type |-> target.type,
            prev |-> zoomD, did |-> did,
            trail |-> IF fresh THEN <<>>
                      ELSE IF counts /\ room THEN Append(zh.trail, <<did, z>>)
                      ELSE IF counts THEN <<>>
                      ELSE zh.trail,
            long |-> IF fresh THEN FALSE ELSE IF counts /\ ~room THEN TRUE ELSE zh.long,
            clamped |-> IF fresh THEN FALSE
                        ELSE zh.clamped \/ did \in {"inClamped", "outClamped"}]

NoTarget == [tagName |-> "", type |-> ""]

\* ------------------------------------------------------------------------
\* The recompute and render pipeline.  A buffer is modelled by what it
\* was computed from: applyImageAdjustments(raw, adj) is the adjusted
\* buffer [raw, adj] and applyLinearHalftone(img, opts) is the halftone
\* buffer [img, opts]; both have the dimensions of the image they come
\* from.  A pending timer or frame callback is the closure it will run.
\* ------------------------------------------------------------------------
\* decoded images, tone parameter settings, halftone parameter settings
Images == 1..MaxImages
ToneParams == 0..MaxToneParams
HalftoneParams == 0..MaxHalftoneParams
MaskContents == {"halftone", "metal"}

\* no buffer, no closure, nothing drawn
NoCanvas == <<>>

applyImageAdjustments(raw, adj) == <<raw, adj>>
applyLinearHalftone(img, opts) == <<img, opts>>

\* width and height of a decoded image
ImageSize(raw) == IF raw = 1 THEN <<60, 40>> ELSE <<200, 100>>

\* clearTimeout(ref.current): the timer the ref designates, the one
\* scheduled last, is removed if it is still pending
ClearTimeout(timers, ref) ==
  IF ref = "pending" THEN SubSeq(timers, 1, Len(timers) - 1) ELSE timers

\* a debounce that keeps the timer already pending and drops the new closure
Reschedule_KeepFirst(timers, ref, closure) ==
  IF ref = "pending" /\ timers # <<>> THEN timers ELSE Append(timers, closure)

\* a debounce effect: clear what the ref designates, schedule the closure
Reschedule(timers, ref, closure) == Append(ClearTimeout(timers, ref), closure)

\* the ref after the oldest pending timer has fired
RefAfterFire(timers, ref) == IF Len(timers) = 1 /\ ref = "pending" THEN "fired" ELSE ref

\* the history record: an export and whether it produced a file, or another
\* event and the stage whose pending timer it cancelled
PipeEvent(cancel) == [op |-> "event", out |-> FALSE, cancel |-> cancel]
NoPipeEvent == PipeEvent("none")

PipeStart ==
  /\ rawImageCanvas = Null
  /\ imageAdj = 0
  /\ halftoneOpts = 0
  /\ maskContent = "halftone"
  /\ imageCanvas = NoCanvas
  /\ halftoneCanvas = NoCanvas
  /\ adjustTimers = <<>>
  /\ adjustTimeoutRef = "none"
  /\ halftoneTimers = <<>>
  /\ halftoneTimeoutRef = "none"
  /\ isProcessingRef = FALSE
  /\ frames = <<>>
  /\ displayed = NoCanvas
  /\ pev = NoPipeEvent

\* ------------------------------------------------------------------------
\* The per-pixel functions.  A sample is <<R, G, B, A>> with 8-bit channels
\* and straight alpha.  The tone stage is taken at its neutral settings
\* with the exposure in whole stops, where its arithmetic is exact; the
\* position of a pixel on the halftone axis enters as normalizedPos in
\* units of 1 / PosDen and the thickness in units of 1 / 20.  A composited
\* pixel is the share (of 255) each of base layer, masked layer and
\* background has in it; the selection outline and the handles drawn over
\* the preview are not part of it.
\* ------------------------------------------------------------------------
AlphaThreshold == 10
PosDen == 4
MaxTile == 1
MaxDpr == 2

Clamp255(v) == IF v < 0 THEN 0 ELSE IF v > 255 THEN 255 ELSE v

\* the product of two fractions of 255, rounded to a fraction of 255
Mul255(x, y) == (x * y + 127) \div 255

Transparent == <<0, 0, 0, 0>>

\* the body of the pixel loop of applyImageAdjustments
AdjustPixel_NoSkip(p, exposure) ==
  <<Clamp255(p[1] * 2^exposure), Clamp255(p[2] * 2^exposure),
    Clamp255(p[3] * 2^exposure), p[4]>>

AdjustPixel(p, exposure) ==
  IF p[4] < AlphaThreshold
  THEN p
  ELSE <<Clamp255(p[1] * 2^exposure), Clamp255(p[2] * 2^exposure),
         Clamp255(p[3] * 2^exposure), p[4]>>

\* the body of the pixel loop of applyLinearHalftone on the zeroed output
HalftonePixel_Opaque(p, pos, thickness, lineColor) ==
  IF p[4] < AlphaThreshold
  THEN Transparent
  ELSE LET brightness == 299 * p[1] + 587 * p[2] + 114 * p[3]
           distFromCenter == IF 2 * pos < PosDen THEN PosDen - 2 * pos ELSE 2 * pos - PosDen
       IN IF distFromCenter * 255000 * 20 < (255000 - brightness) * thickness * PosDen
          THEN <<lineColor[1], lineColor[2], lineColor[3], 255>>
          ELSE Transparent

HalftonePixel(p, pos, thickness, lineColor) ==
  IF p[4] < AlphaThreshold
  THEN Transparent
  ELSE LET brightness == 299 * p[1] + 587 * p[2] + 114 * p[3]
           distFromCenter == IF 2 * pos < PosDen THEN PosDen - 2 * pos ELSE 2 * pos - PosDen
       IN IF distFromCenter * 255000 * 20 < (255000 - brightness) * thickness * PosDen
          THEN <<lineColor[1], lineColor[2], lineColor[3], p[4]>>
          ELSE Transparent

\* the checkerboard tone of the tile a pixel lies in
TileTone(tile) == IF (tile[1] + tile[2]) % 2 = 0 THEN "#141414" ELSE "#0a0a0a"

\* Math.round of the ratio n / d of two positive integers
RoundRatio(n, d) == (2 * n + d) \div (2 * d)

\* renderComposite's sizes for a view [width, height, clientWidth]: drawH
\* is DrawHNum / width, the main canvas has TargetH rows of device pixels,
\* the stencil canvas MaskRows rows which the transform scales by dpr
DrawHNum(v) == v.height * v.clientWidth
TargetH(v, dpr) == RoundRatio(DrawHNum(v) * dpr, v.width)
MaskRows(v) == RoundRatio(DrawHNum(v), v.width)

\* what reaches the device pixels of a row of the preview: the share of
\* the row inside the rectangle the layers are drawn into, and whether the
\* stencil canvas extends over the row
PreviewExtent(in) ==
  LET r == IF in.row = "first" THEN 0 ELSE TargetH(in.view, in.dpr) - 1
      n == DrawHNum(in.view) * in.dpr
      w == in.view.width
  IN [cover |-> IF (r + 1) * w <= n THEN 255
                ELSE IF r * w >= n THEN 0
                ELSE RoundRatio(255 * (n - r * w), w),
      stencil |-> r + 1 <= MaskRows(in.view) * in.dpr]

\* exportImage sizes both canvases width * exportScale by height * exportScale
WholePixel == [cover |-> 255, stencil |-> TRUE]

\* the layers of the composite, outermost first, up to the background
CompositeLayers(imgCvs, htCvs, in, ext) ==
  LET baseCanvas == IF in.maskContent = "halftone" THEN imgCvs ELSE htCvs
      maskedCanvas == IF in.maskContent = "halftone" THEN htCvs ELSE imgCvs
      baseDrawn == Mul255(baseCanvas[4], ext.cover)
      maskedDrawn == Mul255(maskedCanvas[4], ext.cover)
      stencil == IF ext.stencil THEN in.coverage ELSE 0
      base == IF in.hasMasks THEN Mul255(baseDrawn, 255 - stencil) ELSE baseDrawn
      masked == IF in.hasMasks
                THEN Mul255(Mul255(maskedDrawn, in.coverage), 255 - base)
                ELSE 0
  IN [baseLayer |-> baseCanvas, maskedLayer |-> maskedCanvas,
      baseDrawn |-> baseDrawn, maskedDrawn |-> maskedDrawn,
      base |-> base, masked |-> masked]

\* renderComposite at one pixel: layers, then the background behind them
CompositePixel(imgCvs, htCvs, in, ext) ==
  LET l == CompositeLayers(imgCvs, htCvs, in, ext)
  IN [baseLayer |-> l.baseLayer, maskedLayer |-> l.maskedLayer,
      baseDrawn |-> l.baseDrawn, maskedDrawn |-> l.maskedDrawn,
      base |-> l.base, masked |-> l.masked,
      background |-> Mul255(IF in.transparentBg THEN 255 ELSE ext.cover,
                            255 - (l.base + l.masked)),
      fill |-> IF in.transparentBg THEN TileTone(in.tile) ELSE in.bgColor]

\* exportImage at one pixel: layers, then the background colour if it is solid
ExportPixel_Checkerboard(imgCvs, htCvs, in) == CompositePixel(imgCvs, htCvs, in, WholePixel)

ExportPixel(imgCvs, htCvs, in) ==
  LET l == CompositeLayers(imgCvs, htCvs, in, WholePixel)
  IN [baseLayer |-> l.baseLayer, maskedLayer |-> l.maskedLayer,
      baseDrawn |-> l.baseDrawn, maskedDrawn |-> l.maskedDrawn,
      base |-> l.base, masked |-> l.masked,
      background |-> IF in.transparentBg THEN 0 ELSE 255 - (l.base + l.masked),
      fill |-> IF in.transparentBg THEN "none" ELSE in.bgColor]

\* raw samples: nothing, one colour at alphas around the threshold, a dark one
RawPixels ==
  {Transparent, <<20, 20, 20, 255>>}
    \cup {<<200, 100, 50, a>> : a \in {5, AlphaThreshold - 1, AlphaThreshold, 128, 255}}

Coverages == {0, 128, 255}

\* image sizes with the width the canvas is laid out at: drawH is 50, 66.4
Views ==
  {[width |-> 200, height |-> 100, clientWidth |-> 100],
   [width |-> 250, height |-> 166, clientWidth |-> 100]}

\* line colours: the default white and the default background green
LineColors == {<<255, 255, 255>>, <<13, 104, 71>>}

MaskedInputs == [hasMasks : {TRUE}, coverage : Coverages] \cup [hasMasks : {FALSE}, coverage : {0}]

PixelInputs ==
  {[raw |-> raw, exposure |-> exposure, pos |-> pos, thickness |-> 16,
    lineColor |-> lc, maskContent |-> mc, hasMasks |-> m.hasMasks,
    coverage |-> m.coverage, transparentBg |-> tb, tile |-> <<tx, 0>>,
    bgColor |-> "#0d6847", view |-> view, dpr |-> dpr, row |-> row] :
     raw \in RawPixels, exposure \in ToneParams, pos \in 0..(PosDen - 1), lc \in LineColors,
     mc \in MaskContents, m \in MaskedInputs, tb \in BOOLEAN, tx \in {0, MaxTile},
     view \in Views, dpr \in 1..MaxDpr, row \in {"first", "last"}}

\* the adjusted and the halftone sample at the position
ImgAt(in) == AdjustPixel(in.raw, in.exposure)
HtAt(in) == HalftonePixel(ImgAt(in), in.pos, in.thickness, in.lineColor)

NoPixelOutput == [op |-> "none", px |-> Transparent]

PixelStart ==
  /\ pin = CHOOSE in \in PixelInputs : in.raw = Transparent
  /\ pout = NoPixelOutput

\* ------------------------------------------------------------------------
\* Hit tests: a mask of any shape, anywhere (a move never clamps the
\* centre), of the smallest size a resize leaves and larger, a display
\* scale below, at and above one, and a place to test relative to the box
\* ------------------------------------------------------------------------
HitCentres == {<<R(-30), R(0)>>, <<R(100), R(50)>>, <<Frac(201, 2), Frac(101, 3)>>}
HitSizes == {<<R(MinMaskSize), R(MinMaskSize)>>, <<R(MinMaskSize), R(35)>>,
             <<R(70), R(MinMaskSize)>>, <<Frac(141, 2), R(35)>>, <<R(70), Frac(61, 3)>>}
DisplayScales == {Frac(1, 3), Frac(1, 2), R(1), Frac(7, 5), R(2)}
HitPlaces == {"centre", "corner", "beside"}

HitInputs ==
  {[mask |-> [slot |-> "obj", shape |-> sh, x |-> c[1], y |-> c[2],
              width |-> sz[1], height |-> sz[2], id |-> 0],
    cs |-> cs, place |-> pl] :
     sh \in Shapes, c \in HitCentres, sz \in HitSizes, cs \in DisplayScales, pl \in HitPlaces}

\* the display point of a place: the centre of the bounding box, its top
\* left corner, or a point one box width to the right of the centre
HitPoint(in) ==
  LET cx == RMul(in.mask.x, in.cs)
      cy == RMul(in.mask.y, in.cs)
      w == RMul(in.mask.width, in.cs)
      h == RMul(in.mask.height, in.cs)
  IN CASE in.place = "centre" -> [x |-> cx, y |-> cy]
       [] in.place = "corner" -> [x |-> RSub(cx, RHalf(w)), y |-> RSub(cy, RHalf(h))]
       [] OTHER -> [x |-> RAdd(cx, w), y |-> cy]

NoHitOutput == [done |-> FALSE, hit |-> FALSE]

HitStart ==
  /\ hin = CHOOSE in \in HitInputs : in.place = "beside"
  /\ hout = NoHitOutput

\* ------------------------------------------------------------------------
\* History of the last event
\* ------------------------------------------------------------------------
NoEvent == [op |-> "init", arg |-> "", tag |-> "", type |-> "", index |-> Null,
            pt |-> <<0, 0>>, sel |-> Null, drag |-> "null"]

Record(e) == ev' = [e EXCEPT !.sel = selectedMask, !.drag = dragState.type]

\* ------------------------------------------------------------------------
\* Initial state: the component as mounted, no image loaded
\* ------------------------------------------------------------------------
EditorStart ==
  /\ scope \in Scopes
  /\ mounted = TRUE
  /\ imageLoaded = FALSE
  /\ canvasSize = [width |-> InitialCanvasSide, height |-> InitialCanvasSide]
  /\ clientWidth = 0
  /\ masks = <<>>
  /\ selectedMask = Null
  /\ dragState = NoDrag
  /\ zoom = R(1)
  /\ clock = 0
  /\ nGeom = 0
  /\ ev = NoEvent
  /\ zoomD = DOne
  /\ zh = NoZoomHistory
  /\ PipeStart

Init == EditorStart /\ PixelStart /\ HitStart

\* ------------------------------------------------------------------------
\* Actions
\* ------------------------------------------------------------------------
\* handleImageUpload, at the time img.onload runs; a file that is not an
\* image is rejected before anything is set
HandleImageUpload(size, cw, isImage) ==
  /\ mounted
  /\ Record([NoEvent EXCEPT !.op = "imageLoad", !.arg = IF isImage THEN "image" ELSE "other"])
  /\ IF isImage
     THEN /\ canvasSize' = [width |-> size[1], height |-> size[2]]
          /\ clientWidth' = cw
          /\ masks' = <<>>
          /\ selectedMask' = Null
          /\ zoom' = R(1)
          /\ imageLoaded' = TRUE
     ELSE UNCHANGED <<canvasSize, clientWidth, masks, selectedMask, zoom, imageLoaded>>
  /\ UNCHANGED <<scope, mounted, dragState, clock, nGeom>>
  /\ UNCHANGED otherVars

\* a shape button: addMask(shape), with Date.now() reading now
AddMask(shape, now) ==
  /\ mounted /\ imageLoaded
  /\ Len(masks) < MaskCap(scope)
  /\ now >= clock
  /\ clock' = now
  /\ Record([NoEvent EXCEPT !.op = "addMask", !.arg = shape])
  /\ LET newMasks == AddMaskUpdater(masks, shape, canvasSize, now) IN
     IF RenderThrows(newMasks)
     THEN mounted' = FALSE /\ UNCHANGED <<masks, selectedMask>>
     ELSE /\ masks' = newMasks
          /\ selectedMask' = Len(newMasks) - 1
          /\ UNCHANGED mounted
  /\ UNCHANGED <<scope, imageLoaded, canvasSize, clientWidth, dragState, zoom, nGeom>>
  /\ UNCHANGED otherVars

\* the delete button of list item index: deleteMask(index)
DeleteMask(index) ==
  /\ mounted /\ imageLoaded
  /\ IsObject(masks, index)
  /\ Record([NoEvent EXCEPT !.op = "deleteMask", !.index = index])
  /\ masks' = FilterNotIndex(masks, index)
  /\ selectedMask' = DeleteMaskSelection(selectedMask, index)
  /\ UNCHANGED <<scope, mounted, imageLoaded, canvasSize, clientWidth, dragState, zoom, clock, nGeom>>
  /\ UNCHANGED otherVars

\* a click on list item index: setSelectedMask(index)
SelectListItem(index) ==
  /\ mounted /\ imageLoaded
  /\ IsObject(masks, index)
  /\ Record([NoEvent EXCEPT !.op = "select", !.index = index])
  /\ selectedMask' = index
  /\ UNCHANGED <<scope, mounted, imageLoaded, canvasSize, clientWidth, masks, dragState, zoom,
                 clock, nGeom>>
  /\ UNCHANGED otherVars

\* a keydown on window: the listeners handleKeyDown and handleKey both run
KeyDown(key, target) ==
  /\ mounted
  /\ ZoomInModel(KeyZoom(zoom, key, target))
  /\ Record([NoEvent EXCEPT !.op = "keyDown", !.arg = key, !.tag = target.tagName,
                             !.type = target.type])
  /\ IF KeyDeletes(selectedMask, key, target)
     THEN /\ masks' = FilterNotIndex(masks, selectedMask)
          /\ selectedMask' = Null
     ELSE UNCHANGED <<masks, selectedMask>>
  /\ zoom' = KeyZoom(zoom, key, target)
  /\ UNCHANGED <<scope, mounted, imageLoaded, canvasSize, clientWidth, dragState, clock, nGeom>>
  /\ UNCHANGED otherVars

\* the zoom buttons
ZoomButton(which) ==
  /\ mounted /\ imageLoaded
  /\ LET z == CASE which = "in" -> zoomIn(zoom)
                [] which = "out" -> zoomOut(zoom)
                [] OTHER -> zoomReset
     IN /\ ZoomInModel(z)
        /\ zoom' = z
  /\ Record([NoEvent EXCEPT !.op = "zoomButton", !.arg = which])
  /\ UNCHANGED <<scope, mounted, imageLoaded, canvasSize, clientWidth, masks, selectedMask,
                 dragState, clock, nGeom>>
  /\ UNCHANGED otherVars

\* onMouseDown of the canvas with the pointer at pt
HandleMouseDown(pt) ==
  /\ mounted /\ imageLoaded
  /\ LET c == getCanvasCoords(MouseEvent(pt))
         r == MouseDownResult(masks, selectedMask, dragState, c.x, c.y, getCS)
     IN /\ selectedMask' = r.selectedMask
        /\ dragState' = r.dragState
  /\ Record([NoEvent EXCEPT !.op = "mouseDown", !.pt = pt])
  /\ UNCHANGED <<scope, mounted, imageLoaded, canvasSize, clientWidth, masks, zoom, clock, nGeom>>
  /\ UNCHANGED otherVars

\* onMouseMove of the canvas with the pointer at pt
HandleMouseMove(pt) ==
  /\ mounted /\ imageLoaded
  /\ Record([NoEvent EXCEPT !.op = "mouseMove", !.pt = pt])
  /\ LET c == getCanvasCoords(MouseEvent(pt))
         mx == RDiv(c.x, getCS)
         my == RDiv(c.y, getCS)
     IN IF dragState.type = "null"
        THEN UNCHANGED <<masks, mounted, nGeom>>
        ELSE /\ nGeom < MaxGeomSteps
             /\ nGeom' = nGeom + 1
             /\ LET u == MouseMoveUpdater(masks, dragState, mx, my) IN
                IF RenderThrows(u)
                THEN mounted' = FALSE /\ UNCHANGED masks
                ELSE masks' = u /\ UNCHANGED mounted
  /\ UNCHANGED <<scope, imageLoaded, canvasSize, clientWidth, selectedMask, dragState, zoom, clock>>
  /\ UNCHANGED otherVars

\* a release handler that forgets to end the drag
HandleMouseUp_KeepsDrag(kind) ==
  /\ mounted /\ imageLoaded
  /\ Record([NoEvent EXCEPT !.op = kind])
  /\ UNCHANGED <<scope, mounted, imageLoaded, canvasSize, clientWidth, masks, selectedMask,
                 dragState, zoom, clock, nGeom>>
  /\ UNCHANGED otherVars

\* onMouseUp and onMouseLeave of the canvas: handleMouseUp
HandleMouseUp(kind) ==
  /\ mounted /\ imageLoaded
  /\ Record([NoEvent EXCEPT !.op = kind])
  /\ dragState' = NoDrag
  /\ UNCHANGED <<scope, mounted, imageLoaded, canvasSize, clientWidth, masks, selectedMask, zoom,
                 clock, nGeom>>
  /\ UNCHANGED otherVars

Next ==
  \/ \E size \in ImageSizes(scope) : \E cw \in ClientWidths(size[1]) :
     \E b \in FileKinds(scope) :
       HandleImageUpload(size, cw, b)
  \/ \E shape \in ShapesOf(scope) : \E now \in ClockReadings(scope, clock) : AddMask(shape, now)
  \/ \E i \in 0..MaxMasks : DeleteMask(i)
  \/ \E i \in 0..MaxMasks : SelectListItem(i)
  \/ \E key \in KeysOf(scope) : \E target \in KeyTargetsOf(scope) : KeyDown(key, target)
  \/ \E which \in {"in", "out", "reset"} : scope = "zoom" /\ ZoomButton(which)
  \/ \E pt \in PointsOf(scope) : HandleMouseDown(pt)
  \/ \E pt \in PointsOf(scope) : HandleMouseMove(pt)
  \/ \E kind \in ReleaseKinds(scope) : HandleMouseUp(kind)

Spec == Init /\ [][Next]_vars

\* ========================================================================
\* The zoom commands on the binary64 zoom factor
\* ========================================================================
\* targets and keys of the keydown events offered to handleKey
ZoomKeyTargets == {t \in KeyTargets : t.tagName # "TEXTAREA"}
ZoomKeys == {"+", "=", "-", "0"}

ZoomInit == Init /\ scope = "zoom"

\* a keydown on window: handleKey
ZoomKeyDown(key, target) ==
  /\ mounted
  /\ zoomD' = KeyZoomD(zoomD, key, target)
  /\ ZoomRecord("keyDown", key, target, KeyCommand(key, target), KeyZoomD(zoomD, key, target))
  /\ UNCHANGED editVars
  /\ UNCHANGED beyondZoom

\* the zoom buttons, shown once an image is loaded
ZoomClick(which) ==
  /\ mounted /\ imageLoaded
  /\ LET z == CASE which = "in" -> zoomInD(zoomD)
                [] which = "out" -> zoomOutD(zoomD)
                [] OTHER -> zoomResetD
     IN /\ zoomD' = z
        /\ ZoomRecord("zoomButton", which, NoTarget, which, z)
  /\ UNCHANGED editVars
  /\ UNCHANGED beyondZoom

\* handleImageUpload at img.onload: setZoom(1) among its updates
ZoomImageLoad(size, cw) ==
  /\ mounted
  /\ canvasSize' = [width |-> size[1], height |-> size[2]]
  /\ clientWidth' = cw
  /\ masks' = <<>>
  /\ selectedMask' = Null
  /\ zoom' = R(1)
  /\ imageLoaded' = TRUE
  /\ zoomD' = DOne
  /\ ZoomRecord("imageLoad", "", NoTarget, "reset", DOne)
  /\ UNCHANGED <<scope, mounted, dragState, clock, nGeom, ev>>
  /\ UNCHANGED beyondZoom

ZoomNext ==
  \/ \E key \in ZoomKeys : \E target \in ZoomKeyTargets : ZoomKeyDown(key, target)
  \/ \E which \in {"in", "out", "reset"} : ZoomClick(which)
  \/ \E size \in ImageSizes("zoom") : \E cw \in ClientWidths(size[1]) : ZoomImageLoad(size, cw)

ZoomSpec == ZoomInit /\ [][ZoomNext]_vars


\* ========================================================================
\* The recompute and render pipeline
\* ========================================================================
\* renderComposite as the render effect calls it: nothing without the main
\* canvas or the adjusted buffer, nothing while a frame is in flight;
\* otherwise the flag is set and a frame callback is queued which keeps
\* the adjusted buffer it was requested with
RenderComposite_NoGuard(canvas, imgCvs) ==
  IF canvas /\ imgCvs # NoCanvas
  THEN /\ isProcessingRef' = TRUE
       /\ frames' = Append(frames, <<imgCvs>>)
  ELSE UNCHANGED <<isProcessingRef, frames>>

RenderComposite(canvas, imgCvs) ==
  IF canvas /\ imgCvs # NoCanvas /\ ~isProcessingRef
  THEN /\ isProcessingRef' = TRUE
       /\ frames' = Append(frames, <<imgCvs>>)
  ELSE UNCHANGED <<isProcessingRef, frames>>

\* the tone effect after a commit that changed rawImageCanvas or imageAdj
ToneEffect_NoClear(raw, adj) ==
  IF raw = Null
  THEN UNCHANGED <<adjustTimers, adjustTimeoutRef>>
  ELSE /\ adjustTimers' = Append(adjustTimers, <<raw, adj>>)
       /\ adjustTimeoutRef' = "pending"

ToneEffect(raw, adj) ==
  IF raw = Null
  THEN UNCHANGED <<adjustTimers, adjustTimeoutRef>>
  ELSE /\ adjustTimers' = Reschedule(adjustTimers, adjustTimeoutRef, <<raw, adj>>)
       /\ adjustTimeoutRef' = "pending"

\* the halftone effect after a commit that changed imageCanvas or halftoneOpts
HalftoneEffect(img, opts) ==
  IF img = NoCanvas
  THEN UNCHANGED <<halftoneTimers, halftoneTimeoutRef>>
  ELSE /\ halftoneTimers' = Reschedule(halftoneTimers, halftoneTimeoutRef, <<img, opts>>)
       /\ halftoneTimeoutRef' = "pending"

PipeInit == Init /\ scope = "select"

\* handleImageUpload at img.onload, then the effects of that commit
PipeImageLoad(raw) ==
  /\ mounted
  /\ rawImageCanvas' = raw
  /\ canvasSize' = [width |-> ImageSize(raw)[1], height |-> ImageSize(raw)[2]]
  /\ clientWidth' = CHOOSE cw \in ClientWidths(ImageSize(raw)[1]) : TRUE
  /\ masks' = <<>>
  /\ selectedMask' = Null
  /\ zoom' = R(1)
  /\ imageLoaded' = TRUE
  /\ ToneEffect(raw, imageAdj)
  /\ RenderComposite(TRUE, imageCanvas)
  /\ pev' = PipeEvent(IF adjustTimeoutRef = "pending" THEN "tone" ELSE "none")
  /\ UNCHANGED <<imageAdj, halftoneOpts, maskContent, imageCanvas, halftoneCanvas,
                 halftoneTimers, halftoneTimeoutRef, displayed>>
  /\ UNCHANGED <<scope, mounted, dragState, clock, nGeom, ev, beyondPipe>>

\* a tone control: setImageAdj with a new object, then the tone effect
SetImageAdj(adj) ==
  /\ mounted /\ imageLoaded
  /\ imageAdj' = adj
  /\ ToneEffect(rawImageCanvas, adj)
  /\ pev' = PipeEvent(IF adjustTimeoutRef = "pending" THEN "tone" ELSE "none")
  /\ UNCHANGED <<rawImageCanvas, halftoneOpts, maskContent, imageCanvas, halftoneCanvas,
                 halftoneTimers, halftoneTimeoutRef, isProcessingRef, frames, displayed>>
  /\ UNCHANGED <<editVars, beyondPipe>>

\* a halftone control: setHalftoneOpts with a new object, then the halftone effect
SetHalftoneOpts(opts) ==
  /\ mounted /\ imageLoaded
  /\ halftoneOpts' = opts
  /\ HalftoneEffect(imageCanvas, opts)
  /\ pev' = PipeEvent(IF imageCanvas # NoCanvas /\ halftoneTimeoutRef = "pending" THEN "halftone" ELSE "none")
  /\ UNCHANGED <<rawImageCanvas, imageAdj, maskContent, imageCanvas, halftoneCanvas,
                 adjustTimers, adjustTimeoutRef, isProcessingRef, frames, displayed>>
  /\ UNCHANGED <<editVars, beyondPipe>>

\* the mask content toggle: a changed value re-renders and runs the render effect
SetMaskContent(opt) ==
  /\ mounted /\ imageLoaded
  /\ opt # maskContent
  /\ maskContent' = opt
  /\ RenderComposite(TRUE, imageCanvas)
  /\ pev' = PipeEvent("none")
  /\ UNCHANGED <<rawImageCanvas, imageAdj, halftoneOpts, imageCanvas, halftoneCanvas,
                 adjustTimers, adjustTimeoutRef, halftoneTimers, halftoneTimeoutRef, displayed>>
  /\ UNCHANGED <<editVars, beyondPipe>>

\* the oldest pending tone timer fires: the recompute of its closure, then
\* setImageCanvas and the effects of that commit
AdjustTimeout ==
  /\ adjustTimers # <<>>
  /\ adjustTimers' = Tail(adjustTimers)
  /\ adjustTimeoutRef' = RefAfterFire(adjustTimers, adjustTimeoutRef)
  /\ pev' = PipeEvent(IF mounted /\ halftoneTimeoutRef = "pending" THEN "halftone" ELSE "none")
  /\ LET processed == applyImageAdjustments(Head(adjustTimers)[1], Head(adjustTimers)[2])
     IN IF mounted
        THEN /\ imageCanvas' = processed
             /\ HalftoneEffect(processed, halftoneOpts)
             /\ RenderComposite(imageLoaded, processed)
        ELSE UNCHANGED <<imageCanvas, halftoneTimers, halftoneTimeoutRef, isProcessingRef, frames>>
  /\ UNCHANGED <<rawImageCanvas, imageAdj, halftoneOpts, maskContent, halftoneCanvas, displayed>>
  /\ UNCHANGED <<editVars, beyondPipe>>

\* the oldest pending halftone timer fires
HalftoneTimeout ==
  /\ halftoneTimers # <<>>
  /\ halftoneTimers' = Tail(halftoneTimers)
  /\ halftoneTimeoutRef' = RefAfterFire(halftoneTimers, halftoneTimeoutRef)
  /\ pev' = PipeEvent("none")
  /\ LET htCanvas == applyLinearHalftone(Head(halftoneTimers)[1], Head(halftoneTimers)[2])
     IN IF mounted
        THEN /\ halftoneCanvas' = htCanvas
             /\ RenderComposite(imageLoaded, imageCanvas)
        ELSE UNCHANGED <<halftoneCanvas, isProcessingRef, frames>>
  /\ UNCHANGED <<rawImageCanvas, imageAdj, halftoneOpts, maskContent, imageCanvas,
                 adjustTimers, adjustTimeoutRef, displayed>>
  /\ UNCHANGED <<editVars, beyondPipe>>

\* the oldest outstanding frame callback runs: it draws the adjusted
\* buffer of its request and whatever the refs hold now, then clears the flag
AnimationFrame ==
  /\ frames # <<>>
  /\ frames' = Tail(frames)
  /\ displayed' = <<Head(frames)[1], halftoneCanvas, maskContent>>
  /\ isProcessingRef' = FALSE
  /\ pev' = PipeEvent("none")
  /\ UNCHANGED <<rawImageCanvas, imageAdj, halftoneOpts, maskContent, imageCanvas, halftoneCanvas,
                 adjustTimers, adjustTimeoutRef, halftoneTimers, halftoneTimeoutRef>>
  /\ UNCHANGED <<editVars, beyondPipe>>

\* exportImage from the export button, which is disabled without a halftone
\* buffer; the handler returns without output when either buffer is missing
ExportImage_ClearsFlag ==
  /\ mounted /\ imageLoaded /\ halftoneCanvas # NoCanvas
  /\ pev' = [op |-> "export", out |-> imageCanvas # NoCanvas /\ halftoneCanvas # NoCanvas, cancel |-> "none"]
  /\ isProcessingRef' = FALSE
  /\ UNCHANGED <<rawImageCanvas, imageAdj, halftoneOpts, maskContent, imageCanvas, halftoneCanvas,
                 adjustTimers, adjustTimeoutRef, halftoneTimers, halftoneTimeoutRef,
                 frames, displayed>>
  /\ UNCHANGED <<editVars, beyondPipe>>

ExportImage ==
  /\ mounted /\ imageLoaded /\ halftoneCanvas # NoCanvas
  /\ pev' = [op |-> "export", out |-> imageCanvas # NoCanvas /\ halftoneCanvas # NoCanvas, cancel |-> "none"]
  /\ UNCHANGED <<rawImageCanvas, imageAdj, halftoneOpts, maskContent, imageCanvas, halftoneCanvas,
                 adjustTimers, adjustTimeoutRef, halftoneTimers, halftoneTimeoutRef,
                 isProcessingRef, frames, displayed>>
  /\ UNCHANGED <<editVars, beyondPipe>>

\* the component is unmounted: the cleanups of both debounce effects run
Teardown_NoCleanup ==
  /\ mounted
  /\ mounted' = FALSE
  /\ pev' = PipeEvent("none")
  /\ UNCHANGED <<rawImageCanvas, imageAdj, halftoneOpts, maskContent, imageCanvas, halftoneCanvas,
                 adjustTimers, adjustTimeoutRef, halftoneTimers, halftoneTimeoutRef,
                 isProcessingRef, frames, displayed>>
  /\ UNCHANGED <<scope, imageLoaded, canvasSize, clientWidth, masks, selectedMask, dragState,
                 zoom, clock, nGeom, ev, beyondPipe>>

Teardown ==
  /\ mounted
  /\ mounted' = FALSE
  /\ adjustTimers' = ClearTimeout(adjustTimers, adjustTimeoutRef)
  /\ halftoneTimers' = ClearTimeout(halftoneTimers, halftoneTimeoutRef)
  /\ pev' = PipeEvent("none")
  /\ UNCHANGED <<rawImageCanvas, imageAdj, halftoneOpts, maskContent, imageCanvas, halftoneCanvas,
                 adjustTimeoutRef, halftoneTimeoutRef, isProcessingRef, frames, displayed>>
  /\ UNCHANGED <<scope, imageLoaded, canvasSize, clientWidth, masks, selectedMask, dragState,
                 zoom, clock, nGeom, ev, beyondPipe>>

PipeNext ==
  \/ \E raw \in Images : PipeImageLoad(raw)
  \/ \E adj \in ToneParams : SetImageAdj(adj)
  \/ \E opts \in HalftoneParams : SetHalftoneOpts(opts)
  \/ \E opt \in MaskContents : SetMaskContent(opt)
  \/ AdjustTimeout
  \/ HalftoneTimeout
  \/ AnimationFrame
  \/ ExportImage
  \/ Teardown

PipelineSpec == PipeInit /\ [][PipeNext]_vars

\* ========================================================================
\* Loading a second image while masks are drawn: the image loads, the
\* shape buttons, the two timers, the frame callback and the export
\* ========================================================================
\* width and height of an adjusted buffer and of a halftone buffer: each
\* stage creates its output at the size of its input
AdjustedSize(buf) == ImageSize(buf[1])
HalftoneSize(buf) == AdjustedSize(buf[1])

\* a shape button, then the render effect of that commit
PipeAddMask(shape) ==
  /\ mounted /\ imageLoaded
  /\ Len(masks) < MaxMasks
  /\ masks' = AddMaskUpdater(masks, shape, canvasSize, clock)
  /\ selectedMask' = Len(masks)
  /\ RenderComposite(TRUE, imageCanvas)
  /\ pev' = PipeEvent("none")
  /\ UNCHANGED <<rawImageCanvas, imageAdj, halftoneOpts, maskContent, imageCanvas, halftoneCanvas,
                 adjustTimers, adjustTimeoutRef, halftoneTimers, halftoneTimeoutRef, displayed>>
  /\ UNCHANGED <<scope, mounted, imageLoaded, canvasSize, clientWidth, dragState, zoom,
                 clock, nGeom, ev, beyondPipe>>

\* the frame callback finds no 2d context on the main canvas: it clears the
\* flag and draws nothing
FrameNoContext ==
  /\ frames # <<>>
  /\ frames' = Tail(frames)
  /\ isProcessingRef' = FALSE
  /\ pev' = PipeEvent("none")
  /\ UNCHANGED <<rawImageCanvas, imageAdj, halftoneOpts, maskContent, imageCanvas, halftoneCanvas,
                 adjustTimers, adjustTimeoutRef, halftoneTimers, halftoneTimeoutRef, displayed>>
  /\ UNCHANGED <<editVars, beyondPipe>>

\* the frame callback with masks to draw and a stencil canvas it cannot
\* use (no 2d context for it, or a side that rounds to zero): the main
\* canvas has been cleared, the stencil code throws, and the statement
\* that clears the flag is never reached
FrameThrows ==
  /\ frames # <<>>
  /\ masks # <<>>
  /\ frames' = Tail(frames)
  /\ displayed' = NoCanvas
  /\ pev' = PipeEvent("none")
  /\ UNCHANGED <<rawImageCanvas, imageAdj, halftoneOpts, maskContent, imageCanvas, halftoneCanvas,
                 adjustTimers, adjustTimeoutRef, halftoneTimers, halftoneTimeoutRef,
                 isProcessingRef>>
  /\ UNCHANGED <<editVars, beyondPipe>>

MergeNext ==
  \/ \E raw \in Images : PipeImageLoad(raw)
  \/ \E shape \in Shapes : PipeAddMask(shape)
  \/ AdjustTimeout
  \/ HalftoneTimeout
  \/ AnimationFrame
  \/ ExportImage

MergeSpec == PipeInit /\ [][MergeNext]_vars

\* ========================================================================
\* The pipeline under fair scheduling: a pending timer fires and a
\* requested frame callback runs, each eventually
\* ========================================================================
LiveNext ==
  \/ \E raw \in Images : PipeImageLoad(raw)
  \/ \E adj \in ToneParams : SetImageAdj(adj)
  \/ \E opts \in HalftoneParams : SetHalftoneOpts(opts)
  \/ AdjustTimeout
  \/ HalftoneTimeout
  \/ AnimationFrame
  \/ FrameNoContext
  \/ Teardown

FrameRuns == AnimationFrame \/ FrameNoContext

LiveSpec ==
  /\ PipeInit
  /\ [][LiveNext]_vars
  /\ WF_vars(AdjustTimeout)
  /\ WF_vars(HalftoneTimeout)
  /\ WF_vars(FrameRuns)

\* the frame callbacks of a composite with masks, under the same fairness
FrameCallback == AnimationFrame \/ FrameNoContext \/ FrameThrows

FrameLiveNext ==
  \/ \E raw \in Images : PipeImageLoad(raw)
  \/ \E shape \in Shapes : PipeAddMask(shape)
  \/ AdjustTimeout
  \/ HalftoneTimeout
  \/ AnimationFrame
  \/ FrameNoContext
  \/ FrameThrows

FrameLiveSpec ==
  /\ PipeInit
  /\ [][FrameLiveNext]_vars
  /\ WF_vars(AdjustTimeout)
  /\ WF_vars(HalftoneTimeout)
  /\ WF_vars(FrameCallback)

\* ========================================================================
\* The per-pixel functions applied at one position
\* ========================================================================
PixelInit ==
  /\ EditorStart
  /\ HitStart
  /\ scope = "select"
  /\ pin \in PixelInputs
  /\ pout = NoPixelOutput

ApplyAdjust ==
  /\ pout' = [op |-> "tone", px |-> AdjustPixel(pin.raw, pin.exposure)]
  /\ UNCHANGED pin
  /\ UNCHANGED beyondPixel

ApplyHalftone ==
  /\ pout' = [op |-> "halftone", px |-> HalftonePixel(ImgAt(pin), pin.pos, pin.thickness, pin.lineColor)]
  /\ UNCHANGED pin
  /\ UNCHANGED beyondPixel

RenderPixel ==
  /\ pout' = [op |-> "render", px |-> CompositePixel(ImgAt(pin), HtAt(pin), pin, PreviewExtent(pin))]
  /\ UNCHANGED pin
  /\ UNCHANGED beyondPixel

ExportPixelStep ==
  /\ pout' = [op |-> "export", px |-> ExportPixel(ImgAt(pin), HtAt(pin), pin)]
  /\ UNCHANGED pin
  /\ UNCHANGED beyondPixel

PixelNext ==
  \/ ApplyAdjust
  \/ ApplyHalftone
  \/ RenderPixel
  \/ ExportPixelStep

PixelSpec == PixelInit /\ [][PixelNext]_vars

\* ========================================================================
\* isPointInMask applied to one mask and one point
\* ========================================================================
HitInit ==
  /\ EditorStart
  /\ PixelStart
  /\ scope = "select"
  /\ hin \in HitInputs
  /\ hout = NoHitOutput

HitTest ==
  /\ hout' = [done |-> TRUE,
              hit |-> isPointInMask(HitPoint(hin).x, HitPoint(hin).y, hin.mask, hin.cs)]
  /\ UNCHANGED hin
  /\ UNCHANGED beyondHit

HitNext == HitTest

HitSpec == HitInit /\ [][HitNext]_vars

\* ========================================================================
\* Properties
\* ========================================================================
\* the surface position handleMouseDown / handleMouseMove computed for the
\* last pointer event (zoom, canvasSize and clientWidth are as the event
\* found them: no pointer event changes them)
EventPoint == getCanvasCoords(MouseEvent(ev.pt))

\* the last event was a press delivered in Idle
PressedInIdle == ev.op = "mouseDown" /\ ev.drag = "null"

\* the corner (sx, sy) of a mask's bounding box, sx, sy in {-1, 1}, in image space
Corner(m, sx, sy) == [x |-> RAdd(m.x, RMul(R(sx), RHalf(m.width))),
                      y |-> RAdd(m.y, RMul(R(sy), RHalf(m.height)))]

\* surface position c is within the handle tolerance of corner (sx, sy) of m
NearCorner(c, m, sx, sy) ==
  /\ RLt(RAbs(RSub(c.x, RMul(Corner(m, sx, sy).x, getCS))), R(HandleTolerance))
  /\ RLt(RAbs(RSub(c.y, RMul(Corner(m, sx, sy).y, getCS))), R(HandleTolerance))

Signs == {-1, 1}

\* c is on a handle of the mask selected when the event arrived
OnSelectedHandle(c, sel) ==
  /\ sel # Null /\ IsObject(masks, sel)
  /\ \E sx \in Signs : \E sy \in Signs : NearCorner(c, masks[sel + 1], sx, sy)

\* the masks of the collection that contain surface position c
MasksContaining(c) == {i \in 0..(Len(masks) - 1) :
                         IsObject(masks, i) /\ isPointInMask(c.x, c.y, masks[i + 1], getCS)}

SetMax(S) == CHOOSE i \in S : \A j \in S : j <= i

\* the objects of a collection, in order, and without the one at index k
RECURSIVE ObjectsExcept(_, _, _)
ObjectsExcept(ms, k, i) ==
  IF i > Len(ms) THEN <<>>
  ELSE IF ms[i].slot # "obj" \/ i - 1 = k THEN ObjectsExcept(ms, k, i + 1)
  ELSE <<ms[i]>> \o ObjectsExcept(ms, k, i + 1)
Objects(ms) == ObjectsExcept(ms, Null, 1)

\* a control text is typed into
TextEntry(tag, type) == tag = "TEXTAREA" \/ (tag = "INPUT" /\ type = "text")

\* ------------------------------------------------------------------------
\* C1: after any sequence of events the selection is none or an index i
\* with 0 <= i < number of entries of the mask collection.
C1_SelectionInRange ==
  selectedMask = Null \/ (selectedMask >= 0 /\ selectedMask < Len(masks))

\* ------------------------------------------------------------------------
\* C2: deleteMask(k) with selection k clears the selection; with selection
\* j > k it leaves j - 1; with selection j < k it leaves j, and a mask that
\* j designated is still the mask at index j.
C2_DeleteMaskSelection ==
  [][ev'.op = "deleteMask" =>
       LET k == ev'.index
           j == selectedMask
       IN /\ (j = k => selectedMask' = Null)
          /\ (j # Null /\ j > k => selectedMask' = j - 1)
          /\ (j # Null /\ j < k => /\ selectedMask' = j
                                   /\ IsObject(masks, j) =>
                                        /\ j < Len(masks')
                                        /\ masks'[j + 1] = masks[j + 1])
          /\ (j = Null => selectedMask' = Null)]_vars

\* a mask below the selected one was deleted and the selection moved down
C2_Witness ==
  /\ ev.op = "deleteMask"
  /\ ev.sel # Null /\ ev.sel > ev.index
  /\ selectedMask = ev.sel - 1

\* ------------------------------------------------------------------------
\* C3: after every pointer move of a resize drag, to any position, the
\* anchor (the corner opposite the grabbed handle, where it was before the
\* drag) is still a corner of the mask's bounding box.
C3_AnchorStaysCorner ==
  (mounted /\ ev.op = "mouseMove" /\ dragState.type = "resize") =>
    LET m == masks[dragState.index + 1] IN
    /\ RAbs(RSub(m.x, dragState.anchorX)) = RHalf(m.width)
    /\ RAbs(RSub(m.y, dragState.anchorY)) = RHalf(m.height)

\* ------------------------------------------------------------------------
\* C4: every mask of the collection has width >= 20 and height >= 20.
C4_MinimumMaskSize ==
  \A i \in 1..Len(masks) :
    masks[i].slot = "obj" =>
      /\ RGe(masks[i].width, R(MinMaskSize))
      /\ RGe(masks[i].height, R(MinMaskSize))

\* ------------------------------------------------------------------------
\* C5: at every zoom level a press at the on-screen location of image
\* point p is hit-tested and dragged at image-space p: the grab offset it
\* records is p minus the centre of the mask it grabs.
C5_PointerIndependentOfZoom ==
  (PressedInIdle /\ dragState.type = "move") =>
    LET m == masks[dragState.index + 1]
        p == ImagePoint(ev.pt)
    IN /\ dragState.offsetX = RSub(p.x, m.x)
       /\ dragState.offsetY = RSub(p.y, m.y)

\* ------------------------------------------------------------------------
\* C6: in Idle, a press within the handle tolerance of a corner handle of
\* the selected mask starts a resize of the selected mask, anchored at the
\* diagonally opposite corner, and leaves the selection alone, whatever
\* masks contain the press; a press anywhere else starts no resize.
C6_HandlePressResizes ==
  PressedInIdle =>
    LET c == EventPoint IN
    /\ OnSelectedHandle(c, ev.sel) =>
         /\ dragState.type = "resize"
         /\ dragState.index = ev.sel
         /\ selectedMask = ev.sel
         /\ \E sx \in Signs : \E sy \in Signs :
              /\ NearCorner(c, masks[ev.sel + 1], sx, sy)
              /\ dragState.anchorX = Corner(masks[ev.sel + 1], -sx, -sy).x
              /\ dragState.anchorY = Corner(masks[ev.sel + 1], -sx, -sy).y
    /\ dragState.type = "resize" => OnSelectedHandle(c, ev.sel)

\* a press on a handle of the selected mask, inside a mask above it
C6_Witness ==
  /\ PressedInIdle
  /\ dragState.type = "resize"
  /\ \E i \in MasksContaining(EventPoint) : i > ev.sel

\* ------------------------------------------------------------------------
\* C7: in Idle, a press that hits no handle and lies inside at least one
\* mask starts a move of the highest-index mask containing it, selects
\* that mask, and records grab offset = press point - its centre.
C7_PressInsideMoves ==
  (PressedInIdle /\ ~OnSelectedHandle(EventPoint, ev.sel)
     /\ MasksContaining(EventPoint) # {}) =>
    LET c == EventPoint
        top == SetMax(MasksContaining(EventPoint))
    IN /\ dragState.type = "move"
       /\ dragState.index = top
       /\ selectedMask = top
       /\ dragState.offsetX = RSub(RDiv(c.x, getCS), masks[top + 1].x)
       /\ dragState.offsetY = RSub(RDiv(c.y, getCS), masks[top + 1].y)

\* ------------------------------------------------------------------------
\* C8: in Idle, a press that hits no handle of the selected mask and lies
\* inside no mask clears the selection, starts no drag and changes no mask.
C8_PressOnEmptyClears ==
  [][(ev'.op = "mouseDown" /\ dragState.type = "null"
        /\ ~OnSelectedHandle(getCanvasCoords(MouseEvent(ev'.pt)), selectedMask)
        /\ MasksContaining(getCanvasCoords(MouseEvent(ev'.pt))) = {}) =>
       /\ selectedMask' = Null
       /\ dragState'.type = "null"
       /\ masks' = masks]_vars

\* ------------------------------------------------------------------------
\* C9: a release, or the pointer leaving the surface, ends the drag and
\* changes no mask and no selection; a pointer move in Idle changes no
\* mask, no selection and starts no drag; only a press starts a drag.
C9_DragOnlyBetweenPressAndRelease ==
  [][/\ ev'.op \in {"mouseUp", "mouseLeave"} =>
          /\ dragState'.type = "null"
          /\ masks' = masks
          /\ selectedMask' = selectedMask
     /\ (ev'.op = "mouseMove" /\ dragState.type = "null") =>
          /\ masks' = masks
          /\ selectedMask' = selectedMask
          /\ dragState'.type = "null"
     /\ (dragState.type = "null" /\ dragState'.type # "null") => ev'.op = "mouseDown"]_vars

\* a move or resize drag has just been ended by a release
C9_Witness ==
  /\ ev.op \in {"mouseUp", "mouseLeave"}
  /\ ev.drag # "null"
  /\ dragState.type = "null"

\* ------------------------------------------------------------------------
\* C10: Delete/Backspace with selection k and focus not in a text-entry
\* control removes exactly the mask at index k, keeps the others in order
\* and clears the selection; with focus in a text-entry control, or with
\* nothing selected, the collection and the selection are unchanged.
C10_DeleteKeyRemovesSelected ==
  [][(ev'.op = "keyDown" /\ ev'.arg \in {"Backspace", "Delete"}) =>
       IF selectedMask # Null /\ ~TextEntry(ev'.tag, ev'.type)
       THEN /\ Objects(masks') = ObjectsExcept(masks, selectedMask, 1)
            /\ selectedMask' = Null
       ELSE /\ masks' = masks
            /\ selectedMask' = selectedMask]_vars

\* ------------------------------------------------------------------------
\* the numbers 1.25 and 1.5625
D125 == Double(0, 5 * (HiMin \div 4), 0)
D15625 == Double(0, 25 * (HiMin \div 16), 0)

\* C11: on a target that is no text-entry control '+' and '=' set zoom to
\* min(zoom * 1.25, 4), '-' sets it to max(zoom / 1.25, 0.25), '0' sets it
\* to 1; on a text-entry control the keys leave zoom alone; and zoom is
\* within [0.25, 4] after every zoom key, zoom button and image load.
C11_ZoomCommands ==
  [][/\ zh'.op = "keyDown" =>
          IF TextEntry(zh'.tag, zh'.type) THEN zoomD' = zoomD
          ELSE /\ zh'.arg \in {"+", "="} => zoomD' = zoomInD(zoomD)
               /\ zh'.arg = "-" => zoomD' = zoomOutD(zoomD)
               /\ zh'.arg = "0" => zoomD' = DOne
     /\ DLe(DZoomMin, zoomD') /\ DLe(zoomD', DZoomMax)]_vars

\* ------------------------------------------------------------------------
\* C12 as stated: a zoom-in immediately followed by a zoom-out, neither of
\* them clamped, returns zoom to the value before the zoom-in; and the
\* commands +, +, -, 0 from 1.0 give 1.25, 1.5625, 1.25 and 1.0.
C12_ZoomInOutReturns ==
  [][/\ (zh.did = "in" /\ zh'.did = "out") => zoomD' = zh.prev
     /\ (~zh'.long /\ Len(zh'.trail) = 3
           /\ zh'.trail[1][1] = "in" /\ zh'.trail[2][1] = "in" /\ zh'.trail[3][1] = "out") =>
          /\ zh'.trail[1][2] = D125 /\ zh'.trail[2][2] = D15625 /\ zh'.trail[3][2] = D125
     /\ zh'.did = "reset" => zoomD' = DOne]_vars

\* a and b are the same binary64 number or neighbouring ones
WithinOneUlp(a, b) ==
  /\ a.e = b.e
  /\ a.hi - b.hi \in {0 - 1, 0, 1}
  /\ (a.hi - b.hi) * LimbBase + a.lo - b.lo \in {0 - 1, 0, 1}

\* 1.25^k for k = 0 .. 5: the zoom values that zoom-ins alone lead to from 1
\* and that one more zoom-in does not clamp
RECURSIVE Raised(_)
Raised(k) == IF k = 0 THEN DOne ELSE TimesStep(Raised(k - 1))
RaisedFromOne == {Raised(k) : k \in 0..5}

\* C12 amended: a zoom-in immediately followed by a zoom-out, neither of
\* them clamped, returns zoom to the value before the zoom-in exactly when
\* that value is 1.25^k (k = 0 .. 5), and to that value or a neighbouring
\* binary64 number otherwise; the commands +, +, -, 0 from 1.0 give 1.25,
\* 1.5625, 1.25 and 1.0.
C12_ZoomInOutReturnsRounded ==
  [][/\ (zh.did = "in" /\ zh'.did = "out") =>
          /\ WithinOneUlp(zoomD', zh.prev)
          /\ zh.prev \in RaisedFromOne => zoomD' = zh.prev
     /\ (~zh'.long /\ Len(zh'.trail) = 3
           /\ zh'.trail[1][1] = "in" /\ zh'.trail[2][1] = "in" /\ zh'.trail[3][1] = "out") =>
          /\ zh'.trail[1][2] = D125 /\ zh'.trail[2][2] = D15625 /\ zh'.trail[3][2] = D125
     /\ zh'.did = "reset" => zoomD' = DOne]_vars

\* the commands +, +, - from 1.0 have just been given
C12_Witness ==
  /\ ~zh.long /\ Len(zh.trail) = 3
  /\ zh.trail[1][1] = "in" /\ zh.trail[2][1] = "in" /\ zh.trail[3][1] = "out"
  /\ zh.did = "out" /\ zoomD = D125

\* ------------------------------------------------------------------------
\* C13: in each debounce stage a change of the stage's inputs cancels the
\* pending recompute and schedules a new one: at most one recompute is
\* pending per stage, a pending recompute is for the current inputs of its
\* stage, and a buffer that is committed was computed from the inputs its
\* stage had at that moment.
\* ------------------------------------------------------------------------
C13_Debounce ==
  [][/\ Len(adjustTimers') <= 1
     /\ Len(halftoneTimers') <= 1
     /\ \A i \in 1..Len(adjustTimers') : adjustTimers'[i] = <<rawImageCanvas', imageAdj'>>
     /\ \A i \in 1..Len(halftoneTimers') : halftoneTimers'[i] = <<imageCanvas', halftoneOpts'>>
     /\ imageCanvas' # imageCanvas =>
          imageCanvas' = applyImageAdjustments(rawImageCanvas, imageAdj)
     /\ halftoneCanvas' # halftoneCanvas =>
          halftoneCanvas' = applyLinearHalftone(imageCanvas, halftoneOpts)]_vars

\* a tone change has just cancelled the recompute pending for other inputs
\* than the ones now scheduled, with an adjusted buffer already committed
C13_Witness ==
  /\ pev.cancel = "tone"
  /\ adjustTimers = <<(<<rawImageCanvas, imageAdj>>)>>
  /\ imageCanvas # NoCanvas
  /\ imageCanvas # <<rawImageCanvas, imageAdj>>
  /\ halftoneCanvas # NoCanvas

\* ------------------------------------------------------------------------
\* C14: rendering is guarded against re-entry: while a frame callback is
\* outstanding the flag is set and no step queues another one, so at most
\* one frame callback is outstanding at any time.
\* ------------------------------------------------------------------------
C14_OneFrameInFlight ==
  [][/\ Len(frames') <= 1
     /\ frames' # <<>> => isProcessingRef'
     /\ frames # <<>> => frames' = frames \/ frames' = <<>>]_vars

\* a frame is in flight for an adjusted buffer that has been replaced since:
\* the render request of that commit was dropped
C14_Witness ==
  /\ Len(frames) = 1
  /\ isProcessingRef
  /\ frames[1][1] # imageCanvas

\* ------------------------------------------------------------------------
\* C15: once changes stop the displayed frame reflects the latest committed
\* state: when no recompute is pending and no frame callback is
\* outstanding, the main canvas shows the committed adjusted buffer, the
\* committed halftone buffer and the current composition mode.
\* ------------------------------------------------------------------------
Settled ==
  /\ mounted
  /\ imageCanvas # NoCanvas
  /\ adjustTimers = <<>>
  /\ halftoneTimers = <<>>
  /\ frames = <<>>

C15_FinalStateDisplayed ==
  Settled => displayed = <<imageCanvas, halftoneCanvas, maskContent>>

\* ------------------------------------------------------------------------
\* C17: an export leaves masks, selection, drag state, zoom, parameters,
\* the raw, adjusted and halftone buffers, the pending timers, the
\* in-flight flag and the displayed frame unchanged, and it produces a
\* file only when both the adjusted and the halftone buffer are committed.
\* ------------------------------------------------------------------------
C17_ExportLeavesState ==
  [][pev'.op = "export" =>
       /\ UNCHANGED <<editVars, zoomVars>>
       /\ UNCHANGED <<rawImageCanvas, imageAdj, halftoneOpts, maskContent, imageCanvas,
                      halftoneCanvas, adjustTimers, adjustTimeoutRef, halftoneTimers,
                      halftoneTimeoutRef, isProcessingRef, frames, displayed>>
       /\ pev'.out <=> (imageCanvas # NoCanvas /\ halftoneCanvas # NoCanvas)]_vars

\* an export has produced a file while a tone recompute was pending and a
\* frame callback was outstanding
C17_Witness ==
  /\ pev.op = "export"
  /\ pev.out
  /\ adjustTimers # <<>>
  /\ isProcessingRef
  /\ frames # <<>>

\* ------------------------------------------------------------------------
\* C18: teardown cancels every outstanding tone or halftone recompute: once
\* the component is unmounted no recompute is pending, so none runs, and the
\* adjusted and halftone buffers are never committed again.
\* ------------------------------------------------------------------------
C18_TeardownCancels ==
  [][/\ ~mounted' => adjustTimers' = <<>> /\ halftoneTimers' = <<>>
     /\ ~mounted => imageCanvas' = imageCanvas /\ halftoneCanvas' = halftoneCanvas]_vars

\* the component is unmounted and both refs still designate a timer that
\* never fired: teardown cancelled a pending recompute of each stage
C18_Witness ==
  /\ ~mounted
  /\ adjustTimeoutRef = "pending"
  /\ halftoneTimeoutRef = "pending"
  /\ adjustTimers = <<>>
  /\ halftoneTimers = <<>>

C19_CompositePixel ==
  pout.op = "render" =>
    LET x == pout.px
        shows(drawn, share, other) == share = drawn /\ other = 0
    IN /\ x.baseLayer = (IF pin.maskContent = "halftone" THEN ImgAt(pin) ELSE HtAt(pin))
       /\ x.maskedLayer = (IF pin.maskContent = "halftone" THEN HtAt(pin) ELSE ImgAt(pin))
       /\ x.fill = (IF pin.transparentBg THEN TileTone(pin.tile) ELSE pin.bgColor)
       /\ ~pin.hasMasks => shows(x.baseDrawn, x.base, x.masked)
       /\ pin.hasMasks /\ pin.coverage = 255 => shows(x.maskedDrawn, x.masked, x.base)
       /\ pin.hasMasks /\ pin.coverage = 0 => shows(x.baseDrawn, x.base, x.masked)

\* ------------------------------------------------------------------------
\* C20: for a pixel whose alpha is below 10 the tone stage and the halftone
\* stage both output a pixel identical to their input pixel in all four
\* channels.
\* ------------------------------------------------------------------------
C20_Passthrough ==
  /\ pout.op = "tone" /\ pin.raw[4] < AlphaThreshold => pout.px = pin.raw
  /\ pout.op = "halftone" /\ ImgAt(pin)[4] < AlphaThreshold => pout.px = ImgAt(pin)

\* C20 as the code has it: below the threshold the tone stage outputs its
\* input pixel and the halftone stage outputs transparent black, which is
\* its input pixel only where that is transparent black already.
C20_PassthroughToneOnly ==
  /\ pout.op = "tone" /\ pin.raw[4] < AlphaThreshold => pout.px = pin.raw
  /\ pout.op = "halftone" /\ ImgAt(pin)[4] < AlphaThreshold => pout.px = Transparent

\* the tone stage, one stop up, has passed through a coloured pixel of alpha 9
C20_Witness ==
  /\ pout.op = "tone"
  /\ pin.exposure = 1
  /\ pin.raw[4] = AlphaThreshold - 1
  /\ pin.raw[1] > 0
  /\ pout.px = pin.raw

\* ------------------------------------------------------------------------
\* C21: every pixel of the halftone output has alpha 0 or the alpha of its
\* source pixel, and a pixel with non-zero alpha carries exactly the line
\* colour.
\* ------------------------------------------------------------------------
C21_HalftoneAlpha ==
  pout.op = "halftone" =>
    /\ pout.px[4] = 0 \/ pout.px[4] = ImgAt(pin)[4]
    /\ pout.px[4] # 0 => <<pout.px[1], pout.px[2], pout.px[3]>> = pin.lineColor

\* a half-transparent source pixel on a line, drawn in a colour that is
\* neither white nor the source's
C21_Witness ==
  /\ pout.op = "halftone"
  /\ ImgAt(pin)[4] = 128
  /\ pout.px[4] = 128
  /\ pin.lineColor = <<13, 104, 71>>
  /\ pout.px[1] = 13

\* ------------------------------------------------------------------------
\* C22  For every mask of a known shape whose width and height are at
\*      least the minimum size, at every display scale above zero,
\*      isPointInMask reports the centre of the bounding box as inside.
\* ------------------------------------------------------------------------
C22_CentreInside ==
  (/\ hout.done
   /\ hin.place = "centre"
   /\ hin.mask.shape \in Shapes
   /\ RGe(hin.mask.width, R(MinMaskSize))
   /\ RGe(hin.mask.height, R(MinMaskSize))
   /\ RLt(R(0), hin.cs))
  => hout.hit

\* a triangle of the minimum size, left of the image, at a scale below
\* one, was tested at its centre and reported inside
C22_Witness ==
  /\ hout.done
  /\ hout.hit
  /\ hin.place = "centre"
  /\ hin.mask.shape = "triangle"
  /\ hin.mask.width = R(MinMaskSize)
  /\ hin.mask.height = R(MinMaskSize)
  /\ hin.mask.x = R(-30)
  /\ hin.cs = Frac(1, 3)

\* ------------------------------------------------------------------------
\* C23  Mask ids are unique: no two masks of the collection carry the same
\*      id, whatever adds and deletes came before, two adds at the same
\*      clock reading included.
\* ------------------------------------------------------------------------
C23_UniqueIds ==
  \A i, j \in 0..(Len(masks) - 1) :
    (i # j /\ IsObject(masks, i) /\ IsObject(masks, j)
       /\ masks[i + 1].id # Null /\ masks[j + 1].id # Null)
    => masks[i + 1].id # masks[j + 1].id

\* ------------------------------------------------------------------------
\* C24  A composite never merges an adjusted and a halftone buffer of
\*      different dimensions: a frame callback that draws both layers
\*      (masks exist, both buffers present) and an export that draws both
\*      layers find the two buffers of one size.
\* ------------------------------------------------------------------------
C24_SameDimensions ==
  [][/\ (frames # <<>> /\ frames' = Tail(frames) /\ masks # <<>> /\ halftoneCanvas # NoCanvas)
        => AdjustedSize(Head(frames)[1]) = HalftoneSize(halftoneCanvas)
     /\ (pev'.op = "export" /\ pev'.out /\ masks # <<>>)
        => AdjustedSize(imageCanvas) = HalftoneSize(halftoneCanvas)]_vars

\* ------------------------------------------------------------------------
\* C25  The collection keeps creation order.  Read on the ids of the masks
\*      the shape buttons created, in collection order: an add appends the
\*      new id as the last entry, a delete removes one id and keeps the
\*      others in order, an image load empties the collection, and nothing
\*      else (a move or resize included) changes the sequence.
\* ------------------------------------------------------------------------
RECURSIVE CreatedIds(_)
CreatedIds(ms) ==
  IF ms = <<>> THEN <<>>
  ELSE (IF Head(ms).slot = "obj" /\ Head(ms).id # Null THEN <<Head(ms).id>> ELSE <<>>)
       \o CreatedIds(Tail(ms))

WithoutNth(seq, k) == SubSeq(seq, 1, k - 1) \o SubSeq(seq, k + 1, Len(seq))

C25_CreationOrder ==
  [][LET a == CreatedIds(masks)
         b == CreatedIds(masks')
     IN CASE ev'.op = "addMask" ->
               IF mounted'
               THEN /\ b = Append(a, clock')
                    /\ masks'[Len(masks')].slot = "obj"
                    /\ masks'[Len(masks')].id = clock'
               ELSE b = a
          [] ev'.op \in {"deleteMask", "keyDown"} ->
               b = a \/ \E k \in 1..Len(a) : b = WithoutNth(a, k)
          [] ev'.op = "imageLoad" -> b = a \/ b = <<>>
          [] OTHER -> b = a]_vars

\* two masks created at clock readings 0 and 1 are in the collection in
\* that order after a pointer move of a drag rewrote the collection
C25_Witness ==
  /\ ev.op = "mouseMove"
  /\ dragState.type # "null"
  /\ nGeom > 0
  /\ clock = 1
  /\ CreatedIds(masks) = <<0, 1>>
  /\ Len(masks) = 2

\* ------------------------------------------------------------------------
\* C26  During a move drag every pointer move puts the dragged mask's
\*      centre at the pointer's position minus the grab offset, unclamped,
\*      keeps its width, height, shape and id, and leaves every other entry
\*      of the collection as it was.  The pointer's position is taken as
\*      handleMouseMove computes it from the event.
\* ------------------------------------------------------------------------
C26_MoveFollowsPointer ==
  [][(ev'.op = "mouseMove" /\ dragState.type = "move") =>
       LET i == dragState.index
           c == getCanvasCoords(MouseEvent(ev'.pt))
           mx == RDiv(c.x, getCS)
           my == RDiv(c.y, getCS)
       IN /\ Len(masks') = Len(masks)
          /\ IsObject(masks, i)
          /\ masks'[i + 1] = [masks[i + 1] EXCEPT !.x = RSub(mx, dragState.offsetX),
                                                  !.y = RSub(my, dragState.offsetY)]
          /\ \A j \in 1..Len(masks) : j # i + 1 => masks'[j] = masks[j]]_vars

\* ------------------------------------------------------------------------
\* C29  While a drag is in progress its index refers to an existing mask,
\*      and every entry of the collection is a mask with a shape, a width
\*      and a height: no pointer move creates an entry lacking them, also
\*      when the dragged mask was removed during the drag.
\* ------------------------------------------------------------------------
C29_DragIndexExists ==
  /\ dragState.type # "null" => IsObject(masks, dragState.index)
  /\ \A i \in 1..Len(masks) :
       /\ masks[i].slot = "obj"
       /\ masks[i].shape \in Shapes
       /\ ~IsNaN(masks[i].width)
       /\ ~IsNaN(masks[i].height)

\* ------------------------------------------------------------------------
\* C27  Once an image is loaded and the image and the tone and halftone
\*      parameters stop changing, with the component mounted, the adjusted
\*      buffer eventually is and stays the tone stage's output for the raw
\*      image and the tone parameters, and the halftone buffer the halftone
\*      stage's output for that adjusted buffer and the halftone parameters.
\* ------------------------------------------------------------------------
C27_EventuallyProcessed ==
  \A raw \in Images : \A adj \in ToneParams : \A opts \in HalftoneParams :
    <>[](mounted /\ rawImageCanvas = raw /\ imageAdj = adj /\ halftoneOpts = opts)
    => <>[](/\ imageCanvas = applyImageAdjustments(raw, adj)
            /\ halftoneCanvas = applyLinearHalftone(imageCanvas, opts))

\* the second image with both parameters changed from their defaults has
\* been processed by both stages and no timer is pending
C27_Witness ==
  /\ mounted
  /\ rawImageCanvas = MaxImages
  /\ imageAdj = MaxToneParams
  /\ halftoneOpts = MaxHalftoneParams
  /\ adjustTimers = <<>>
  /\ halftoneTimers = <<>>
  /\ imageCanvas = applyImageAdjustments(MaxImages, MaxToneParams)
  /\ halftoneCanvas = applyLinearHalftone(imageCanvas, MaxHalftoneParams)

\* ------------------------------------------------------------------------
\* C28  The in-flight flag set by an accepted render request is eventually
\*      cleared, in every execution: also when a surface or its context is
\*      unavailable as the frame callback runs.
\* ------------------------------------------------------------------------
C28_FlagEventuallyCleared == isProcessingRef ~> ~isProcessingRef

====
